---- MODULE Spec2Model ----
(***************************************************************************)
(* nl-cube: schema cache refresh (SchemaManager::refresh_cache), SQL       *)
(* extraction from model responses (OllamaProvider / RemoteLlmProvider),   *)
(* table qualification (apply_simple_qualification) and the natural-       *)
(* language request handler (nl_query behind sync_nl_query_handler).       *)
(*                                                                         *)
(* Text is modelled as a sequence of one-character strings, and offsets    *)
(* are the 0-based byte offsets Rust uses (the alphabet is ASCII).         *)
(***************************************************************************)
EXTENDS Integers, Sequences, FiniteSets, TLC

(***************************************************************************)
(* Bounds of the model.                                                    *)
(***************************************************************************)
NumRequests == 2
NumRefreshers == 2
NumReaders == 1
MaxClock == 2

(***************************************************************************)
(* Rust str primitives.                                                    *)
(***************************************************************************)
None == -1

\* char::is_whitespace restricted to the alphabet of the model
IsWhitespace(c) == c \in {" ", "\n", "\t"}

\* pat occurs in s at byte offset i
MatchAt(s, pat, i) ==
    /\ i >= 0
    /\ i + Len(pat) <= Len(s)
    /\ \A k \in 1..Len(pat) : s[i + k] = pat[k]

\* str::find: offset of the first occurrence, or None
Find(s, pat) ==
    IF \E i \in 0..Len(s) : MatchAt(s, pat, i)
    THEN CHOOSE i \in 0..Len(s) :
            MatchAt(s, pat, i) /\ \A j \in 0..(i - 1) : ~MatchAt(s, pat, j)
    ELSE None

\* str::rfind: offset of the last occurrence, or None
RFind(s, pat) ==
    IF \E i \in 0..Len(s) : MatchAt(s, pat, i)
    THEN CHOOSE i \in 0..Len(s) :
            MatchAt(s, pat, i) /\ \A j \in (i + 1)..Len(s) : ~MatchAt(s, pat, j)
    ELSE None

Contains(s, pat) == Find(s, pat) # None

StartsWith(s, pat) == MatchAt(s, pat, 0)

EndsWith(s, pat) == Len(pat) <= Len(s) /\ MatchAt(s, pat, Len(s) - Len(pat))

\* &s[b..e]; the caller checks b <= e <= len (Rust panics otherwise)
Slice(s, b, e) == SubSeq(s, b + 1, e)

\* str::trim
Trim(s) ==
    IF \A i \in 1..Len(s) : IsWhitespace(s[i])
    THEN << >>
    ELSE LET b == CHOOSE i \in 1..Len(s) :
                    ~IsWhitespace(s[i]) /\ \A j \in 1..(i - 1) : IsWhitespace(s[j])
             e == CHOOSE i \in 1..Len(s) :
                    ~IsWhitespace(s[i]) /\ \A j \in (i + 1)..Len(s) : IsWhitespace(s[j])
         IN SubSeq(s, b, e)

RECURSIVE ReplaceFrom(_, _, _, _)
\* s[i..] with every match of pat replaced: the text up to the next match
\* is copied, rep is pushed, and the search goes on after the match
ReplaceFrom(s, pat, rep, i) ==
    LET rest == Slice(s, i, Len(s))
        k == Find(rest, pat)
    IN IF k = None
       THEN rest
       ELSE Slice(rest, 0, k) \o rep \o ReplaceFrom(s, pat, rep, i + k + Len(pat))

\* str::replace: every non-overlapping occurrence, left to right
Replace(s, pat, rep) == ReplaceFrom(s, pat, rep, 0)

LowerLetters == << "a","b","c","d","e","f","g","h","i","j","k","l","m",
                   "n","o","p","q","r","s","t","u","v","w","x","y","z" >>
UpperLetters == << "A","B","C","D","E","F","G","H","I","J","K","L","M",
                   "N","O","P","Q","R","S","T","U","V","W","X","Y","Z" >>

\* str::to_uppercase
ToUppercase(s) ==
    [ i \in 1..Len(s) |->
        IF \E k \in 1..26 : LowerLetters[k] = s[i]
        THEN UpperLetters[CHOOSE k \in 1..26 : LowerLetters[k] = s[i]]
        ELSE s[i] ]

RECURSIVE SplitLines(_, _)
\* pieces of s between "\n", the piece in progress being cur
SplitLines(s, cur) ==
    IF s = << >> THEN << cur >>
    ELSE IF Head(s) = "\n"
         THEN << cur >> \o SplitLines(Tail(s), << >>)
         ELSE SplitLines(Tail(s), Append(cur, Head(s)))

\* str::lines: a final line ending is optional, so a last empty piece is dropped
Lines(s) ==
    LET pieces == SplitLines(s, << >>)
    IN IF pieces[Len(pieces)] = << >>
       THEN SubSeq(pieces, 1, Len(pieces) - 1)
       ELSE pieces

(***************************************************************************)
(* Text constants.                                                         *)
(***************************************************************************)
\* the backtick character (written as a named symbol of the alphabet)
Bq == "BACKTICK"
Fence == << Bq, Bq, Bq >>
FenceSql == Fence \o << "s", "q", "l" >>
Backtick == << Bq >>
Dq == << "\"" >>
KwSelect == << "S","E","L","E","C","T" >>
KwFrom == << "F","R","O","M" >>
KwJoin == << "J","O","I","N" >>
KwUpdate == << "U","P","D","A","T","E" >>
KwInsertInto == << "I","N","S","E","R","T"," ","I","N","T","O" >>
KwDeleteFrom == << "D","E","L","E","T","E"," ","F","R","O","M" >>
Sp == << " " >>
Nl == << "\n" >>
Semi == << ";" >>
Dot == << "." >>
Orders == << "o","r","d","e","r","s" >>
Customers == << "c","u","s","t","o","m","e","r","s" >>
Products == << "p","r","o","d","u","c","t","s" >>
Sales == << "s","a","l","e","s" >>
OrderId == << "o","r","d","e","r","_","i","d" >>
CountStar == << "C","O","U","N","T","(","*",")" >>

(***************************************************************************)
(* SQL extraction from a model response.  A result is [ok, sql]: ok is     *)
(* FALSE when the slice content[start + 6..end] panics (start + 6 > end).  *)
(***************************************************************************)
Extracted(sql) == [ok |-> TRUE, sql |-> sql]
SlicePanic == [ok |-> FALSE, sql |-> << >>]

SqlKeywords == { KwSelect, << "W","I","T","H" >>, << "I","N","S","E","R","T" >>,
                 KwUpdate, << "D","E","L","E","T","E" >>,
                 << "C","R","E","A","T","E" >>, << "A","L","T","E","R" >>,
                 << "D","R","O","P" >> }

\* the block between the SQL-tagged fence and the LAST fence of the response
TaggedBlock(content) ==
    LET start == Find(content, FenceSql)
        end == RFind(content, Fence)
    IN IF start + 6 > end
       THEN SlicePanic
       ELSE Extracted(Trim(Slice(content, start + 6, end)))

RECURSIVE CollectLines(_, _, _)
\* the inner loop of the line scan: lines[j..] are appended to sql until a
\* fence line, or until one of THESE lines ends with ';'
CollectLines(lines, j, sql) ==
    IF j > Len(lines) THEN sql
    ELSE LET next_line == Trim(lines[j])
         IN IF next_line = Fence \/ StartsWith(next_line, Fence)
            THEN sql
            ELSE IF EndsWith(next_line, Semi)
                 THEN sql \o Sp \o next_line
                 ELSE CollectLines(lines, j + 1, sql \o Sp \o next_line)

IsSqlLine(line) ==
    \E kw \in SqlKeywords : StartsWith(ToUppercase(Trim(line)), kw)

\* OllamaProvider::extract_sql
extract_sql(content) ==
    IF Find(content, FenceSql) # None /\ RFind(content, Fence) # None
    THEN TaggedBlock(content)
    ELSE LET start == Find(content, Fence)
             content_after_first ==
                 IF start = None THEN << >>
                 ELSE Slice(content, start + 3, Len(content))
             end == Find(content_after_first, Fence)
         IN IF start # None /\ end # None
            THEN Extracted(Trim(Slice(content_after_first, 0, end)))
            ELSE LET lines == Lines(content)
                 IN IF \E i \in 1..Len(lines) : IsSqlLine(lines[i])
                    THEN LET i == CHOOSE k \in 1..Len(lines) :
                                    /\ IsSqlLine(lines[k])
                                    /\ \A m \in 1..(k - 1) : ~IsSqlLine(lines[m])
                         IN Extracted(CollectLines(lines, i + 1, Trim(lines[i])))
                    ELSE Extracted(content)

\* the extraction at the end of RemoteLlmProvider::generate_sql
remote_extract(content) ==
    IF Find(content, FenceSql) # None /\ RFind(content, Fence) # None
    THEN TaggedBlock(content)
    ELSE Extracted(content)

(***************************************************************************)
(* Qualification of table references.                                      *)
(***************************************************************************)
\* "schema"."table"
QuotedName(schema, table) == Dq \o schema \o Dq \o Dot \o Dq \o table \o Dq

\* the rewrites apply_simple_qualification makes for one table
QualifyOneTable(sql, table, schema) ==
    LET q == QuotedName(schema, table)
        r1 == Replace(sql, Sp \o KwFrom \o Sp \o table \o Sp,
                           Sp \o KwFrom \o Sp \o q \o Sp)
        r2 == Replace(r1, Sp \o KwFrom \o Sp \o table \o Semi,
                          Sp \o KwFrom \o Sp \o q \o Sp \o Semi)
        r3 == Replace(r2, Sp \o KwJoin \o Sp \o table \o Sp,
                          Sp \o KwJoin \o Sp \o q \o Sp)
        r4 == Replace(r3, KwUpdate \o Sp \o table \o Sp,
                          KwUpdate \o Sp \o q \o Sp)
        r5 == Replace(r4, KwInsertInto \o Sp \o table \o Sp,
                          KwInsertInto \o Sp \o q \o Sp)
        r6 == Replace(r5, KwDeleteFrom \o Sp \o table \o Sp,
                          KwDeleteFrom \o Sp \o q \o Sp)
        column_pattern == table \o Dot \o OrderId
    IN IF Contains(r6, column_pattern)
       THEN Replace(r6, column_pattern, q \o Dot \o OrderId)
       ELSE r6

RECURSIVE QualifyEach(_, _, _)
\* the loop "for table in tables" of apply_simple_qualification
QualifyEach(sql, tables, schema) ==
    IF tables = << >> THEN sql
    ELSE QualifyEach(QualifyOneTable(sql, Head(tables), schema),
                     Tail(tables), schema)

\* a qualifier that falls back on the conventional table when it is given
\* no table
qualification_with_default_table(sql, tables, schema) ==
    QualifyEach(sql, IF tables = << >> THEN << Orders >> ELSE tables, schema)

\* apply_simple_qualification: tables is the slice of known table names
apply_simple_qualification(sql, tables, schema) ==
    QualifyEach(sql, tables, schema)

(***************************************************************************)
(* generate_sql of the three providers.  reply is what the HTTP exchange   *)
(* produced: TransportError, or the text of the model's response.  The     *)
(* result is [kind, sql] with kind "ok", "err" or "panic".                 *)
(***************************************************************************)
TransportError == << "HTTP_ERROR" >>

GenOk(sql) == [kind |-> "ok", sql |-> sql]
GenErr == [kind |-> "err", sql |-> << >>]
GenPanic == [kind |-> "panic", sql |-> << >>]

\* OllamaProvider::generate_sql
ollama_generate_sql(reply) ==
    IF reply = TransportError THEN GenErr
    ELSE LET x == extract_sql(reply)
         IN IF ~x.ok THEN GenPanic
            ELSE IF Trim(x.sql) = << >> THEN GenErr
                 ELSE GenOk(x.sql)

\* RemoteLlmProvider::generate_sql
remote_generate_sql(reply) ==
    IF reply = TransportError THEN GenErr
    ELSE LET x == remote_extract(reply)
         IN IF ~x.ok THEN GenPanic ELSE GenOk(x.sql)

\* LocalLlmProvider::generate_sql
local_generate_sql(reply) == GenErr

Backends == {"ollama", "remote", "local"}

\* LlmManager::generate_sql: dispatch to the configured provider
generate_sql(be, reply) ==
    CASE be = "ollama" -> ollama_generate_sql(reply)
      [] be = "remote" -> remote_generate_sql(reply)
      [] OTHER -> local_generate_sql(reply)

(***************************************************************************)
(* Inputs of the model.                                                    *)
(***************************************************************************)
SubjA == << "a" >>
SubjB == << "b" >>
Subjects == {SubjA, SubjB}
CsvNames == {Orders}
\* the subjects the natural-language requests run over
NlSubjects == {SubjA}

SelectAll == KwSelect \o Sp \o << "*" >> \o Sp \o KwFrom \o Sp \o Orders \o Semi
CommentOnly == << "-", "-", " ", "n", "o", " ", "i", "d", "e", "a" >>

\* texts a model may answer with
Responses ==
    { FenceSql \o Nl \o SelectAll \o Nl \o Fence,
      SelectAll,
      CommentOnly,
      << " ", "\n" >>,
      FenceSql \o Nl \o Sp \o Nl \o Fence,
      FenceSql \o Nl \o KwSelect \o Sp \o << "1" >> }

Replies == Responses \cup {TransportError}

\* the statement nl_query builds for the target subject
HardcodedSql(subject) ==
    KwSelect \o Sp \o CountStar \o Sp \o KwFrom \o Sp
        \o QuotedName(subject, Orders) \o Semi

(***************************************************************************)
(* State.                                                                  *)
(***************************************************************************)
VARIABLES
    backend,        \* config.llm.backend: the provider behind LlmManager
    dirs,           \* subject directories present in data_dir
    csvFiles,       \* subject -> stems of the .csv files in its directory
    subjects,       \* AppState::subjects (Vec<String>)
    llm_manager,    \* owner of the AppState::llm_manager mutex, 0 when free
    nl,             \* request -> locals and outcome of its nl_query call
    dbFile,         \* subject -> <subject>/<subject>.duckdb exists
    dbTables,       \* subject -> tables in that database
    schema_cache,   \* SchemaManager::schema_cache (subject -> Vec of tables)
    last_refresh,   \* SchemaManager::last_refresh (logical time)
    cache_writer,   \* holder of the schema_cache write lock, 0 when free
    cache_readers,  \* holders of the schema_cache read lock
    ts_writer,      \* holder of the last_refresh write lock, 0 when free
    rf,             \* refresh call -> locals and outcome of refresh_cache
    px,             \* a function under test: its arguments and its result
    http,           \* the last response of a subject, query or upload handler
    up              \* locals of the process_uploaded_files call

nlVars == << backend, dirs, csvFiles, subjects, llm_manager, nl >>
rfVars == << dbFile, dbTables, schema_cache, last_refresh, cache_writer,
             cache_readers, ts_writer, rf >>
auxVars == << px, http, up >>
vars == << backend, dirs, csvFiles, subjects, llm_manager, nl, dbFile,
           dbTables, schema_cache, last_refresh, cache_writer, cache_readers,
           ts_writer, rf, px, http, up >>

Requests == 1..NumRequests
Refreshers == 1..NumRefreshers
Readers == (NumRefreshers + 1)..(NumRefreshers + NumReaders)

NoSql == << >>

\* locals of a request that has not started
NlIdle == [pc |-> "Idle", target |-> << >>, tables |-> << >>,
           raw_sql |-> NoSql, submitted |-> << >>, gen_calls |-> 0,
           error |-> "none", sql_used |-> NoSql]

\* orderings of a set of at most two names, as read_dir may list them
Orderings(S) ==
    IF S = {} THEN { << >> }
    ELSE IF Cardinality(S) = 1 THEN { << x >> : x \in S }
    ELSE { << x, y >> : x \in S, y \in S } \ { << x, x >> : x \in S }

\* a HashMap<String, Vec<String>> over the subjects of the model: a subject
\* is a key of the map when present is TRUE
NoEntry == [present |-> FALSE, tables |-> << >>]
EmptyMap == [s \in Subjects |-> NoEntry]
MapInsert(m, s, tables) == [m EXCEPT ![s] = [present |-> TRUE, tables |-> tables]]

\* no function is under test
NoCall == [op |-> "none"]

\* no handler has answered yet
NoResponse == [handler |-> "none", subject |-> << >>, status |-> "none",
               db_ctx |-> "none"]

\* no upload is being processed
UpIdle == [pc |-> "idle", subject |-> << >>, files |-> << >>,
           uploaded |-> << >>]

\* locals of a refresh_cache call that is not running
RfIdle == [pc |-> "idle", entries |-> {}, schema_map |-> EmptyMap,
           result |-> "none"]

\* the state AppState::new and SchemaManager::with_multi_db build, over an
\* arbitrary content of the data directory
InitNl ==
    /\ backend \in Backends
    /\ dirs \in SUBSET NlSubjects
    /\ csvFiles \in [Subjects -> SUBSET CsvNames]
    /\ \A s \in Subjects : s \notin dirs => csvFiles[s] = {}
    /\ subjects = << >>
    /\ llm_manager = 0
    /\ nl = [r \in Requests |-> NlIdle]
    /\ dbFile = [s \in Subjects |-> FALSE]
    /\ dbTables = [s \in Subjects |-> {}]
    /\ schema_cache = EmptyMap
    /\ last_refresh = 0
    /\ cache_writer = 0
    /\ cache_readers = {}
    /\ ts_writer = 0
    /\ rf = [r \in Refreshers |-> RfIdle]
    /\ http = NoResponse
    /\ up = UpIdle
    /\ px = NoCall

(***************************************************************************)
(* nl_query, run by sync_nl_query_handler in a blocking task.              *)
(***************************************************************************)
\* the request ends with an error response
NlFail(r, kind) ==
    nl' = [nl EXCEPT ![r].pc = "Failed", ![r].error = kind]

\* determine_query_subject: the first cached subject, the cache being
\* refreshed from the data directory first when it is empty
NlDetermineSubject(r) ==
    /\ nl[r].pc = "Idle"
    /\ UNCHANGED << backend, dirs, csvFiles, llm_manager >>
    /\ UNCHANGED rfVars
    /\ UNCHANGED auxVars
    /\ IF subjects # << >>
       THEN /\ nl' = [nl EXCEPT ![r].pc = "ReceivedQuestion",
                                ![r].target = subjects[1]]
            /\ UNCHANGED subjects
       ELSE \E read_ok \in BOOLEAN, listed \in Orderings(dirs) :
              IF ~read_ok
              THEN /\ NlFail(r, "subject_refresh_failed")
                   /\ UNCHANGED subjects
              ELSE /\ subjects' = listed
                   /\ IF listed = << >>
                      THEN NlFail(r, "no_subjects")
                      ELSE nl' = [nl EXCEPT ![r].pc = "ReceivedQuestion",
                                            ![r].target = listed[1]]

\* AppState::get_table_metadata(Some(subject)), as [found, tables]: found
\* is FALSE for the text "# DATABASE SCHEMA\n\nNo schemas found in
\* database. ..." and TRUE for a text with a "## Schema:" section, tables
\* being its "### Table:" entries in the order read_dir lists the files
get_table_metadata(subject) ==
    IF subject \notin dirs
    THEN { [found |-> FALSE, tables |-> << >>] }
    ELSE { [found |-> TRUE, tables |-> t] : t \in Orderings(csvFiles[subject]) }

\* nl_query lines 236-247: build the context, stop when it is the
\* "No schemas found" text
NlBuildContext(r) ==
    /\ nl[r].pc = "ReceivedQuestion"
    /\ UNCHANGED << backend, dirs, csvFiles, subjects, llm_manager >>
    /\ UNCHANGED rfVars
    /\ UNCHANGED auxVars
    /\ \E open_ok \in BOOLEAN, md \in get_table_metadata(nl[r].target) :
         CASE ~open_ok -> NlFail(r, "database_error")
           [] open_ok /\ ~md.found -> NlFail(r, "no_tables")
           [] OTHER -> nl' = [nl EXCEPT ![r].pc = "ContextBuilt",
                                        ![r].tables = md.tables]

\* a lock() that does not wait for the holder
LlmLockIgnored == TRUE

\* tokio::sync::Mutex: lock() completes only while nobody holds the mutex
LlmLockAvailable == llm_manager = 0

\* llm.lock().await, then generate_sql is called
NlLockLlm(r) ==
    /\ nl[r].pc = "ContextBuilt"
    /\ LlmLockAvailable
    /\ llm_manager' = r
    /\ nl' = [nl EXCEPT ![r].pc = "ModelInvoked",
                        ![r].gen_calls = nl[r].gen_calls + 1]
    /\ UNCHANGED << backend, dirs, csvFiles, subjects >>
    /\ UNCHANGED rfVars
    /\ UNCHANGED auxVars

\* a generation error answered by running the COUNT statement anyway
OnGenerationErrorFallback(r) ==
    nl' = [nl EXCEPT ![r].pc = "Failed", ![r].error = "llm_error",
                     ![r].submitted = Append(nl[r].submitted,
                                             HardcodedSql(nl[r].target))]

\* map_err(..)? on the result of generate_sql: (500, "LLM error: ..")
OnGenerationError(r) == NlFail(r, "llm_error")

\* a return from generate_sql that drops the guard on success only
NlGenerateReturnsKeepingGuard(r) ==
    /\ nl[r].pc = "ModelInvoked"
    /\ UNCHANGED << backend, dirs, csvFiles, subjects >>
    /\ UNCHANGED rfVars
    /\ UNCHANGED auxVars
    /\ \E reply \in Replies :
         LET res == generate_sql(backend, reply)
         IN CASE res.kind = "err" ->
                   /\ OnGenerationError(r)
                   /\ UNCHANGED llm_manager
              [] res.kind = "panic" ->
                   /\ NlFail(r, "task_panicked")
                   /\ UNCHANGED llm_manager
              [] OTHER ->
                   /\ nl' = [nl EXCEPT ![r].pc = "SqlExtracted",
                                       ![r].raw_sql = res.sql]
                   /\ llm_manager' = 0

\* mgr.generate_sql(..).await returns and the guard is dropped, on every
\* path: Ok, Err (map_err + ?) and unwinding from a panic
NlGenerateReturns(r) ==
    /\ nl[r].pc = "ModelInvoked"
    /\ llm_manager' = 0
    /\ UNCHANGED << backend, dirs, csvFiles, subjects >>
    /\ UNCHANGED rfVars
    /\ UNCHANGED auxVars
    /\ \E reply \in Replies :
         LET res == generate_sql(backend, reply)
         IN CASE res.kind = "err" -> OnGenerationError(r)
              [] res.kind = "panic" -> NlFail(r, "task_panicked")
              [] OTHER -> nl' = [nl EXCEPT ![r].pc = "SqlExtracted",
                                           ![r].raw_sql = res.sql]

\* nl_query lines 258-326, which run without suspension: reject empty SQL,
\* strip backticks, build the statement, take a pooled connection, prepare
\* and run the statement, answer with the statement in x-generated-sql
NlExecute(r) ==
    /\ nl[r].pc = "SqlExtracted"
    /\ UNCHANGED << backend, dirs, csvFiles, subjects, llm_manager >>
    /\ UNCHANGED rfVars
    /\ UNCHANGED auxVars
    /\ IF Trim(nl[r].raw_sql) = << >>
       THEN NlFail(r, "empty_sql")
       ELSE LET sql == Replace(nl[r].raw_sql, Backtick, << >>)
                modified_sql == HardcodedSql(nl[r].target)
                sent == Append(nl[r].submitted, modified_sql)
            IN \E engine \in {"pool_error", "prepare_error", "query_error", "ok"} :
                 CASE engine = "pool_error" -> NlFail(r, "connection_error")
                   [] engine = "ok" ->
                        nl' = [nl EXCEPT ![r].pc = "Succeeded",
                                         ![r].submitted = sent,
                                         ![r].sql_used = modified_sql]
                   [] OTHER ->
                        nl' = [nl EXCEPT ![r].pc = "Failed",
                                         ![r].submitted = sent,
                                         ![r].error = engine]

\* delete_subject: the directory is removed before the schema is dropped,
\* and the cached subject list is refreshed only on the last path
DeleteSubjectStep(s, outcome) ==
    /\ s \in dirs
    /\ UNCHANGED << backend, llm_manager, nl >>
    /\ UNCHANGED << px, up >>
    /\ UNCHANGED << schema_cache, last_refresh, cache_writer, cache_readers,
                    ts_writer, rf >>
    /\ outcome \in {"remove_error", "pool_error", "drop_error", "ok"}
    /\ IF outcome = "remove_error"
       THEN UNCHANGED << dirs, csvFiles, subjects, dbFile, dbTables >>
       ELSE /\ dirs' = dirs \ {s}
            /\ csvFiles' = [csvFiles EXCEPT ![s] = {}]
            /\ dbFile' = [dbFile EXCEPT ![s] = FALSE]
            /\ dbTables' = [dbTables EXCEPT ![s] = {}]
            /\ IF outcome = "ok"
               THEN subjects' \in Orderings(dirs') \cup {subjects}
               ELSE UNCHANGED subjects

\* delete_subject runs on an existing subject
DeleteSubject(s) ==
    /\ \E outcome \in {"remove_error", "pool_error", "drop_error", "ok"} :
         DeleteSubjectStep(s, outcome)
    /\ UNCHANGED http

NextNl ==
    \/ \E r \in Requests : NlDetermineSubject(r)
    \/ \E r \in Requests : NlBuildContext(r)
    \/ \E r \in Requests : NlLockLlm(r)
    \/ \E r \in Requests : NlGenerateReturns(r)
    \/ \E r \in Requests : NlExecute(r)
    \/ \E s \in Subjects : DeleteSubject(s)

SpecNl == InitNl /\ [][NextNl]_vars

(***************************************************************************)
(* Properties of the natural-language request (SpecNl).                    *)
(***************************************************************************)
NlEnded(r) == nl[r].pc \in {"Succeeded", "Failed"}

\* C2: when generation and extraction succeed, the statement executed and
\* reported as the SQL used is the qualified form of the extracted SQL.
C2_ExecutesQualifiedExtraction ==
    \A r \in Requests :
        nl[r].pc = "Succeeded" =>
            LET qualified == apply_simple_qualification(nl[r].raw_sql,
                                                        nl[r].tables,
                                                        nl[r].target)
            IN /\ nl[r].submitted = << qualified >>
               /\ nl[r].sql_used = qualified

\* SELECT COUNT(*) FROM <table>, bare or qualified, with or without ';'
IsCountQuery(stmt, subject, tables) ==
    \E i \in 1..Len(tables) :
        \E name \in { tables[i], QuotedName(subject, tables[i]) } :
            LET q == KwSelect \o Sp \o CountStar \o Sp \o KwFrom \o Sp \o name
            IN stmt \in { q, q \o Semi }

\* C3: when the execution of the request's statement fails, exactly one
\* fallback query (a minimal SELECT COUNT(*) on a table of the catalog) is
\* attempted before the request finishes.
C3_OneFallbackAfterExecutionFailure ==
    \A r \in Requests :
        (NlEnded(r) /\ nl[r].error \in {"prepare_error", "query_error"}) =>
            /\ Len(nl[r].submitted) = 2
            /\ IsCountQuery(nl[r].submitted[2], nl[r].target, nl[r].tables)

\* every line of the text is blank or a "--" comment
IsCommentOnly(sql) ==
    LET lines == Lines(sql)
    IN \A i \in 1..Len(lines) :
          Trim(lines[i]) = << >> \/ StartsWith(Trim(lines[i]), << "-", "-" >>)

\* empty, whitespace-only or comment-only
IsDegenerate(sql) == Trim(sql) = << >> \/ IsCommentOnly(sql)

\* C4: an extraction result that is empty, whitespace-only or only a "--"
\* comment is a generation failure for every provider: the request ends
\* with an error and no statement is executed.
C4_DegenerateExtractionFails ==
    \A r \in Requests :
        (NlEnded(r) /\ nl[r].gen_calls > 0 /\ IsDegenerate(nl[r].raw_sql)) =>
            /\ nl[r].pc = "Failed"
            /\ nl[r].submitted = << >>

\* C5: when generate_sql returns an error the request ends with an error:
\* nothing is executed, no fallback is tried, generate_sql was called once,
\* and the request takes no further step.
C5_GenerationErrorEndsRequest ==
    /\ [](\A r \in Requests :
            nl[r].error = "llm_error" =>
                /\ nl[r].pc = "Failed"
                /\ nl[r].submitted = << >>
                /\ nl[r].gen_calls = 1)
    /\ [][\A r \in Requests :
            nl[r].error = "llm_error" => nl'[r] = nl[r]]_vars

\* a request that ended on a generation error while another one went on
C5_Witness ==
    \E r \in Requests, q \in Requests :
        /\ nl[r].error = "llm_error"
        /\ nl[q].pc = "Succeeded"

\* the context of request r was built for a subject without tables
NoTablesDiscovered(r) ==
    /\ nl[r].pc \notin {"Idle", "ReceivedQuestion"}
    /\ nl[r].error \notin {"subject_refresh_failed", "no_subjects",
                           "database_error"}
    /\ nl[r].tables = << >>

\* C6: if the target subject has no discovered tables the request ends with
\* the "no data available" error and generate_sql is never invoked.
C6_NoTablesShortCircuits ==
    \A r \in Requests :
        NoTablesDiscovered(r) =>
            /\ nl[r].gen_calls = 0
            /\ NlEnded(r) => nl[r].error = "no_tables"

\* C7: at most one generate_sql call is in progress at any time.
C7_OneGenerationAtATime ==
    Cardinality({ r \in Requests : nl[r].pc = "ModelInvoked" }) <= 1

\* one request is generating while another one waits for the lock
C7_Witness ==
    \E r \in Requests, q \in Requests :
        /\ nl[r].pc = "ModelInvoked"
        /\ nl[q].pc = "ContextBuilt"

(***************************************************************************)
(* Table discovery, the closure refresh_cache runs for one subject         *)
(* database once Connection::open succeeded.  o1, o2 and o3 say what the   *)
(* engine does with the sqlite_master query, SHOW TABLES and PRAGMA        *)
(* table_list: the prepare fails, the query fails when run, or it returns  *)
(* rows (the tables of the database, or no row).                           *)
(***************************************************************************)
StrategyOutcomes == {"prepare_error", "query_error", "rows", "no_rows"}

TableNames == {Orders}
\* the order in which the engine lists tables
TableOrder == << Orders >>
\* the names probed as a last resort, in the order of the code
ConventionalNames == << Orders, Customers, Products, Sales >>

InternalPrefixes == { << "s","q","l","i","t","e","_" >>, << "d","u","c","k","_" >>,
                      << "p","g","_" >> }
IsInternalName(name) == \E pre \in InternalPrefixes : StartsWith(name, pre)

KeepIn(names, S) == SelectSeq(names, LAMBDA t : t \in S)
KeepUser(names) == SelectSeq(names, LAMBDA t : ~IsInternalName(t))

\* rows of a strategy whose query ran: all tables, or none
RowsOf(outcome, db_tables) ==
    IF outcome = "rows" THEN KeepIn(TableOrder, db_tables) ELSE << >>

Discovered(tables) == [ok |-> TRUE, tables |-> tables]
DiscoveryFailed == [ok |-> FALSE, tables |-> << >>]

\* refresh_cache lines 86-159
discover_tables(db_tables, o1, o2, o3) ==
    IF o1 = "query_error" THEN DiscoveryFailed
    ELSE IF o1 = "prepare_error" /\ o2 = "query_error" THEN DiscoveryFailed
    ELSE LET first == IF o1 = "prepare_error"
                      THEN RowsOf(o2, db_tables)
                      ELSE KeepUser(RowsOf(o1, db_tables))
         IN IF first # << >> THEN Discovered(first)
            ELSE IF o3 = "query_error" THEN DiscoveryFailed
            ELSE LET third == KeepUser(RowsOf(o3, db_tables))
                 IN IF third # << >> THEN Discovered(third)
                    ELSE Discovered(KeepIn(ConventionalNames, db_tables))

(***************************************************************************)
(* SchemaManager::refresh_cache.                                           *)
(***************************************************************************)
InFlight == { r \in Refreshers : rf[r].pc # "idle" }

\* the call returns Err(kind): its locals are dropped
RefreshFails(r, kind) ==
    rf' = [rf EXCEPT ![r] = [RfIdle EXCEPT !.result = kind]]

\* a refresh that takes the write lock of the cache before it scans
RefreshBeginLocked(r) ==
    /\ rf[r].pc = "idle"
    /\ last_refresh + Cardinality(InFlight) < MaxClock
    /\ cache_writer = 0 /\ cache_readers = {}
    /\ cache_writer' = r
    /\ rf' = [rf EXCEPT ![r] = [pc |-> "scan", entries |-> dirs,
                                schema_map |-> EmptyMap, result |-> "none"]]
    /\ UNCHANGED nlVars
    /\ UNCHANGED auxVars
    /\ UNCHANGED << dbFile, dbTables, schema_cache, last_refresh,
                    cache_readers, ts_writer >>

\* lines 61-69: a new local map, then read_dir on the data directory
RefreshBeginStep(r) ==
    /\ rf[r].pc = "idle"
    /\ last_refresh + Cardinality(InFlight) < MaxClock
    /\ UNCHANGED nlVars
    /\ UNCHANGED << http, up >>
    /\ UNCHANGED << dbFile, dbTables, schema_cache, last_refresh, cache_writer,
                    cache_readers, ts_writer >>
    /\ \E read_ok \in BOOLEAN :
         IF read_ok
         THEN rf' = [rf EXCEPT ![r] = [pc |-> "scan", entries |-> dirs,
                                       schema_map |-> EmptyMap,
                                       result |-> "none"]]
         ELSE RefreshFails(r, "io_error")

\* refresh_cache is entered
RefreshBegin(r) ==
    /\ RefreshBeginStep(r)
    /\ UNCHANGED px

\* a scan that writes the tables of a subject straight into the shared cache
InsertScannedInPlace(r, s, tables) ==
    /\ rf' = [rf EXCEPT ![r].entries = rf[r].entries \ {s}]
    /\ schema_cache' = MapInsert(schema_cache, s, tables)

\* lines 163-165: schema_map.insert(subject, tables) on the local map
InsertScanned(r, s, tables) ==
    /\ rf' = [rf EXCEPT ![r].entries = rf[r].entries \ {s},
                        ![r].schema_map = MapInsert(rf[r].schema_map, s, tables)]
    /\ UNCHANGED schema_cache

\* a failing subject whose error installs what was scanned so far
OnSubjectErrorInstall(r, kind) ==
    /\ RefreshFails(r, kind)
    /\ schema_cache' = rf[r].schema_map

\* line 161, .await??: the error of the blocking task ends refresh_cache
OnSubjectError(r, kind) ==
    /\ RefreshFails(r, kind)
    /\ UNCHANGED schema_cache

\* lines 81-161: what the blocking task of one subject can come back with:
\* Connection::open fails, or discovery runs under some behaviour of the
\* engine
SubjectAttempts(db_tables) ==
    {[opened |-> FALSE, found |-> DiscoveryFailed]} \cup
    {[opened |-> TRUE, found |-> discover_tables(db_tables, o1, o2, o3)] :
        o1 \in StrategyOutcomes, o2 \in StrategyOutcomes, o3 \in StrategyOutcomes}

\* lines 71-166: one iteration of the loop over the directory entries
RefreshScanSubject(r) ==
    /\ rf[r].pc = "scan"
    /\ UNCHANGED nlVars
    /\ UNCHANGED auxVars
    /\ UNCHANGED << dbFile, dbTables, last_refresh, cache_writer,
                    cache_readers, ts_writer >>
    /\ \E s \in rf[r].entries :
         IF s \notin dirs \/ ~dbFile[s]
         THEN /\ rf' = [rf EXCEPT ![r].entries = rf[r].entries \ {s}]
              /\ UNCHANGED schema_cache
         ELSE \E attempt \in SubjectAttempts(dbTables[s]) :
                CASE ~attempt.opened -> OnSubjectError(r, "open_error")
                  [] attempt.opened /\ ~attempt.found.ok ->
                       OnSubjectError(r, "probe_error")
                  [] OTHER -> InsertScanned(r, s, attempt.found.tables)

\* tokio::sync::RwLock: write() completes while nobody holds the lock
CacheWriteLockAvailable == cache_writer = 0 /\ cache_readers = {}

\* lines 172-174: take the write lock of schema_cache and move the local
\* map into it
RefreshInstallStep(r) ==
    /\ rf[r].pc = "scan"
    /\ rf[r].entries = {}
    /\ CacheWriteLockAvailable
    /\ cache_writer' = r
    /\ schema_cache' = rf[r].schema_map
    /\ rf' = [rf EXCEPT ![r].pc = "stamp", ![r].schema_map = EmptyMap]
    /\ UNCHANGED nlVars
    /\ UNCHANGED << http, up >>
    /\ UNCHANGED << dbFile, dbTables, last_refresh, cache_readers, ts_writer >>

\* the map of the call becomes the cache
RefreshInstall(r) ==
    /\ RefreshInstallStep(r)
    /\ UNCHANGED px

\* lines 176-178: take the write lock of last_refresh and store the time
RefreshStamp(r) ==
    /\ rf[r].pc = "stamp"
    /\ ts_writer = 0
    /\ ts_writer' = r
    /\ last_refresh' = last_refresh + 1
    /\ rf' = [rf EXCEPT ![r].pc = "return"]
    /\ UNCHANGED nlVars
    /\ UNCHANGED auxVars
    /\ UNCHANGED << dbFile, dbTables, schema_cache, cache_writer, cache_readers >>

\* a return that drops the guard of last_refresh and keeps the write guard
\* of schema_cache
RefreshReturnKeepingCacheLock(r) ==
    /\ rf[r].pc = "return"
    /\ ts_writer' = 0
    /\ rf' = [rf EXCEPT ![r] = [RfIdle EXCEPT !.result = "ok"]]
    /\ UNCHANGED nlVars
    /\ UNCHANGED auxVars
    /\ UNCHANGED << dbFile, dbTables, schema_cache, last_refresh, cache_writer,
                    cache_readers >>

\* lines 180-182: Ok(()), both guards are dropped
RefreshReturn(r) ==
    /\ rf[r].pc = "return"
    /\ cache_writer' = 0
    /\ ts_writer' = 0
    /\ rf' = [rf EXCEPT ![r] = [RfIdle EXCEPT !.result = "ok"]]
    /\ UNCHANGED nlVars
    /\ UNCHANGED auxVars
    /\ UNCHANGED << dbFile, dbTables, schema_cache, last_refresh, cache_readers >>

\* a reader of the cache takes the read lock
ReaderAcquire(p) ==
    /\ p \notin cache_readers
    /\ cache_writer = 0
    /\ cache_readers' = cache_readers \cup {p}
    /\ UNCHANGED nlVars
    /\ UNCHANGED auxVars
    /\ UNCHANGED << dbFile, dbTables, schema_cache, last_refresh, cache_writer,
                    ts_writer, rf >>

\* the reader drops its guard
ReaderRelease(p) ==
    /\ p \in cache_readers
    /\ cache_readers' = cache_readers \ {p}
    /\ UNCHANGED nlVars
    /\ UNCHANGED auxVars
    /\ UNCHANGED << dbFile, dbTables, schema_cache, last_refresh, cache_writer,
                    ts_writer, rf >>

IngestOutcomes == {"open_error", "drop_error", "create_error", "ok"}

\* CsvIngestor::ingest / ParquetIngestor::ingest on the database of subject
\* s: the directory is created when missing, the database is opened (and
\* created), the table is dropped and then created from the file
IngestFile(s, t, outcome) ==
    /\ dirs' = dirs \cup {s}
    /\ CASE outcome = "open_error" -> UNCHANGED << dbFile, dbTables >>
         [] outcome = "drop_error" ->
              /\ dbFile' = [dbFile EXCEPT ![s] = TRUE]
              /\ UNCHANGED dbTables
         [] outcome = "create_error" ->
              /\ dbFile' = [dbFile EXCEPT ![s] = TRUE]
              /\ dbTables' = [dbTables EXCEPT ![s] = dbTables[s] \ {t}]
         [] OTHER ->
              /\ dbFile' = [dbFile EXCEPT ![s] = TRUE]
              /\ dbTables' = [dbTables EXCEPT ![s] = dbTables[s] \cup {t}]

\* a file is ingested into the database of subject s
Ingest(s, t) ==
    /\ UNCHANGED << backend, csvFiles, subjects, llm_manager, nl >>
    /\ UNCHANGED auxVars
    /\ UNCHANGED << schema_cache, last_refresh, cache_writer, cache_readers,
                    ts_writer, rf >>
    /\ \E outcome \in IngestOutcomes : IngestFile(s, t, outcome)

\* the state SchemaManager::with_multi_db builds, over an arbitrary content
\* of the data directory
RefreshStart ==
    /\ backend = "ollama"
    /\ dirs \in SUBSET Subjects
    /\ csvFiles = [s \in Subjects |-> {}]
    /\ subjects = << >>
    /\ llm_manager = 0
    /\ nl = [r \in Requests |-> NlIdle]
    /\ dbFile \in [Subjects -> BOOLEAN]
    /\ dbTables \in [Subjects -> SUBSET TableNames]
    /\ \A s \in Subjects : s \notin dirs => ~dbFile[s]
    /\ \A s \in Subjects : ~dbFile[s] => dbTables[s] = {}
    /\ schema_cache = EmptyMap
    /\ last_refresh = 0
    /\ cache_writer = 0
    /\ cache_readers = {}
    /\ ts_writer = 0
    /\ rf = [r \in Refreshers |-> RfIdle]
    /\ http = NoResponse
    /\ up = UpIdle

InitRefresh ==
    /\ RefreshStart
    /\ px = NoCall

NextRefresh ==
    \/ \E r \in Refreshers : RefreshBegin(r)
    \/ \E r \in Refreshers : RefreshScanSubject(r)
    \/ \E r \in Refreshers : RefreshInstall(r)
    \/ \E r \in Refreshers : RefreshStamp(r)
    \/ \E r \in Refreshers : RefreshReturn(r)
    \/ \E p \in Readers : ReaderAcquire(p)
    \/ \E p \in Readers : ReaderRelease(p)
    \/ \E s \in Subjects, t \in TableNames : Ingest(s, t)

SpecRefresh == InitRefresh /\ [][NextRefresh]_vars

(***************************************************************************)
(* Properties of refresh_cache, checked under SpecRefresh.                 *)
(***************************************************************************)
Scanning(r) == rf[r].pc = "scan" /\ rf[r].entries # {}
ScanComplete(r) == rf[r].pc = "scan" /\ rf[r].entries = {}
SubjectErrors == {"open_error", "probe_error"}

\* C1: a subject whose database cannot be opened or probed is skipped: no
\* call of refresh_cache ends with the error of a subject.
C1_SubjectFailureTolerated ==
    \A r \in Refreshers : rf[r].result \notin SubjectErrors

\* C8: the shared map only ever changes in one step, from the complete old
\* map to the complete map a refresher finished building, and only while no
\* reader holds the read lock; a map under construction is never the cache.
C8_ReaderSeesWholeMap ==
    [][ schema_cache' # schema_cache =>
          /\ cache_readers = {}
          /\ cache_readers' = {}
          /\ \E r \in Refreshers :
               /\ ScanComplete(r)
               /\ schema_cache' = rf[r].schema_map
               /\ cache_writer' = r ]_vars

\* a reader holds the read lock on an installed map while a refresh is in
\* the middle of building a different one
C8_Witness ==
    /\ cache_readers # {}
    /\ last_refresh > 0
    /\ \E r \in Refreshers :
         /\ Scanning(r)
         /\ rf[r].schema_map # EmptyMap
         /\ rf[r].schema_map # schema_cache

\* C9: a call of refresh_cache that returns an error has written nothing:
\* the step that ends it in error leaves the cache and the timestamp alone
\* and is taken before the install; cache and timestamp are only written by
\* a call that is past every failure point, and such a call cannot fail.
C9_ErrorLeavesCacheUntouched ==
    [][ /\ \A r \in Refreshers :
             (rf'[r].result \notin {"none", "ok"} /\ rf'[r] # rf[r]) =>
                 /\ schema_cache' = schema_cache
                 /\ last_refresh' = last_refresh
                 /\ rf[r].pc \in {"idle", "scan"}
        /\ (schema_cache' # schema_cache \/ last_refresh' # last_refresh) =>
             \E r \in Refreshers :
                 /\ ScanComplete(r) \/ rf[r].pc = "stamp"
                 /\ rf'[r].pc \in {"stamp", "return"}
        /\ \A r \in Refreshers :
             rf[r].pc \in {"stamp", "return"} => rf'[r].result \in {"none", "ok"}
      ]_vars

\* a call ended with the error of a subject after it had put tables in its
\* local map, while the cache holds the tables of an earlier refresh
C9_Witness ==
    /\ last_refresh > 0
    /\ schema_cache # EmptyMap
    /\ \E r \in Refreshers : rf[r].result \in SubjectErrors

\* C10: discovery on an open database never fails: no call of refresh_cache
\* ends with the error of a discovery query.
C10_DiscoveryNeverFails ==
    \A r \in Refreshers : rf[r].result # "probe_error"

(***************************************************************************)
(* SQL extraction applied to model responses (SpecExtract).  A response is *)
(* put together from an optional preamble, an optional opening fence, a    *)
(* body, an optional closing fence and an optional trailer (a remark or a  *)
(* second fenced block), so that the fences may be balanced, unbalanced,   *)
(* repeated or absent.                                                     *)
(***************************************************************************)
ExtractInputs ==
    LET
        Preambles == { << >>, << "S","u","r","e",":","\n" >> }
        OpeningFences == { << >>, Fence \o Nl, FenceSql \o Nl }
        Bodies == { SelectAll, KwSelect \o Sp \o << "1" >>, CommentOnly, Sp }
        ClosingFences == { << >>, Nl \o Fence }
        Trailers == { << >>, Nl \o << "O","K" >>,
                      Nl \o Fence \o Nl \o << "x" >> \o Nl \o Fence }
    IN
    { a \o b \o c \o d \o e : a \in Preambles, b \in OpeningFences, c \in Bodies,
                                  d \in ClosingFences, e \in Trailers }

ExtractingProviders == {"ollama", "remote"}

\* the extraction of a provider: OllamaProvider::extract_sql, or the inline
\* extraction of RemoteLlmProvider::generate_sql
provider_extract(provider, content) ==
    IF provider = "ollama" THEN extract_sql(content) ELSE remote_extract(content)

InitExtract ==
    /\ backend = "ollama"
    /\ dirs = {}
    /\ csvFiles = [s \in Subjects |-> {}]
    /\ subjects = << >>
    /\ llm_manager = 0
    /\ nl = [r \in Requests |-> NlIdle]
    /\ dbFile = [s \in Subjects |-> FALSE]
    /\ dbTables = [s \in Subjects |-> {}]
    /\ schema_cache = EmptyMap
    /\ last_refresh = 0
    /\ cache_writer = 0
    /\ cache_readers = {}
    /\ ts_writer = 0
    /\ rf = [r \in Refreshers |-> RfIdle]
    /\ http = NoResponse
    /\ up = UpIdle
    /\ \E provider \in ExtractingProviders, content \in ExtractInputs :
         px = [op |-> "extract", provider |-> provider, content |-> content]

\* the provider extracts the SQL of the response
Extract ==
    /\ px.op = "extract"
    /\ px' = [op |-> "extracted", provider |-> px.provider,
              content |-> px.content,
              out |-> provider_extract(px.provider, px.content)]
    /\ UNCHANGED nlVars
    /\ UNCHANGED rfVars
    /\ UNCHANGED << http, up >>

NextExtract == Extract

SpecExtract == InitExtract /\ [][NextExtract]_vars

\* C11: SQL extraction is total: for every response text, fences unbalanced
\* or not, it returns a string and does not panic.
C11_ExtractionIsTotal ==
    px.op = "extracted" => px.out.ok

(***************************************************************************)
(* The qualifier applied to SQL texts (SpecQualify): execute_query calls   *)
(* apply_simple_qualification with the tables it found for the schema, an  *)
(* empty list when the schema is unknown.                                  *)
(***************************************************************************)
\* the rest of the system is at rest while a function is under test
NothingRunning ==
    /\ backend = "ollama"
    /\ dirs = {}
    /\ csvFiles = [s \in Subjects |-> {}]
    /\ subjects = << >>
    /\ llm_manager = 0
    /\ nl = [r \in Requests |-> NlIdle]
    /\ dbFile = [s \in Subjects |-> FALSE]
    /\ dbTables = [s \in Subjects |-> {}]
    /\ schema_cache = EmptyMap
    /\ last_refresh = 0
    /\ cache_writer = 0
    /\ cache_readers = {}
    /\ ts_writer = 0
    /\ rf = [r \in Refreshers |-> RfIdle]
    /\ http = NoResponse
    /\ up = UpIdle

\* a column of the catalog
OrderIdColumn == << "O","r","d","e","r","I","d" >>

\* the statements sent to execute_query; orderid is the catalog's column as
\* a model may write it
QualifySqls ==
    LET
        OrderIdLower == << "o","r","d","e","r","i","d" >>
        \* an identifier of the statement that holds a table name as a substring
        MyOrders == << "m","y" >> \o Orders
        SelectLists == { << "*" >>, OrderIdLower, Orders \o Dot \o OrderId,
                         MyOrders \o Dot \o OrderId }
        FromClauses ==
            { Sp \o KwFrom \o Sp \o Orders,
              Sp \o KwFrom \o Sp \o MyOrders,
              Sp \o KwFrom \o Sp \o Customers,
              Sp \o KwFrom \o Sp \o Orders \o Sp \o KwJoin \o Sp \o Customers,
              Sp \o KwFrom \o Sp \o Customers \o Sp \o KwJoin \o Sp \o Orders
                 \o Sp \o KwJoin \o Sp \o Orders \o << " ", "o" >> }
        Endings == { << >>, Semi, Sp \o Semi, << " ","L","I","M","I","T"," ","1" >>,
                     Nl \o << "L","I","M","I","T"," ","1" >> }
    IN
    { KwSelect \o Sp \o a \o b \o c :
            a \in SelectLists, b \in FromClauses, c \in Endings }

\* what get_tables_for_schema(..).unwrap_or_default() gives execute_query,
\* with the columns the catalog holds for those tables
Catalogs ==
    { [tables |-> << >>, columns |-> << >>],
      [tables |-> << Orders >>, columns |-> << OrderIdColumn >>],
      [tables |-> << Orders, Customers >>, columns |-> << OrderIdColumn >>] }

InitQualify ==
    /\ NothingRunning
    /\ \E sql \in QualifySqls, cat \in Catalogs, schema \in NlSubjects :
         px = [op |-> "qualify", sql |-> sql, tables |-> cat.tables,
               columns |-> cat.columns, schema |-> schema]

\* execute_query qualifies the statement it was sent
Qualify ==
    /\ px.op = "qualify"
    /\ px' = [op |-> "qualified", sql |-> px.sql, tables |-> px.tables,
              columns |-> px.columns, schema |-> px.schema,
              out |-> apply_simple_qualification(px.sql, px.tables, px.schema)]
    /\ UNCHANGED nlVars
    /\ UNCHANGED rfVars
    /\ UNCHANGED << http, up >>

\* the qualified statement is sent again and qualified again
QualifyAgain ==
    /\ px.op = "qualified"
    /\ px' = [op |-> "requalified", sql |-> px.sql, tables |-> px.tables,
              columns |-> px.columns, schema |-> px.schema, out |-> px.out,
              again |-> apply_simple_qualification(px.out, px.tables, px.schema)]
    /\ UNCHANGED nlVars
    /\ UNCHANGED rfVars
    /\ UNCHANGED << http, up >>

NextQualify ==
    \/ Qualify
    \/ QualifyAgain

SpecQualify == InitQualify /\ [][NextQualify]_vars

\* C12: qualification is idempotent: the qualifier applied to its own output
\* returns that output unchanged.
C12_QualificationIdempotent ==
    px.op = "requalified" => px.again = px.out

\* C13: when the subject is unknown (its table list is empty) the qualifier
\* returns the SQL it was given, unchanged.
C13_UnknownSubjectNoOp ==
    (px.op \in {"qualified", "requalified"} /\ px.tables = << >>) =>
        px.out = px.sql

\* a statement naming the table orders was qualified with an empty table list
C13_Witness ==
    /\ px.op = "qualified"
    /\ px.tables = << >>
    /\ Contains(px.sql, Sp \o KwFrom \o Sp \o Orders)

WordChars ==
    { LowerLetters[k] : k \in 1..26 } \cup { UpperLetters[k] : k \in 1..26 }
        \cup { "_", "0", "1", "2", "3", "4", "5", "6", "7", "8", "9" }

RECURSIVE SplitWords(_, _)
\* the word-like tokens of s, the token in progress being cur
SplitWords(s, cur) ==
    LET done == IF cur = << >> THEN << >> ELSE << cur >>
    IN IF s = << >> THEN done
       ELSE IF Head(s) \in WordChars
            THEN SplitWords(Tail(s), Append(cur, Head(s)))
            ELSE done \o SplitWords(Tail(s), << >>)

Tokens(s) == LET w == SplitWords(s, << >>) IN { w[i] : i \in 1..Len(w) }

\* C14: a token of the SQL that matches a catalog column case-insensitively
\* but differs in case is replaced by the catalog's casing: the output holds
\* the catalog's name and no longer the token.
C14_CaseCorrected ==
    px.op = "qualified" =>
        \A i \in 1..Len(px.columns) :
            \A tok \in Tokens(px.sql) :
                (ToUppercase(tok) = ToUppercase(px.columns[i])
                    /\ tok # px.columns[i]) =>
                    /\ px.columns[i] \in Tokens(px.out)
                    /\ tok \notin Tokens(px.out)

(***************************************************************************)
(* The subject and query handlers (SpecSubjects) and the upload flow       *)
(* (SpecUpload).                                                           *)
(***************************************************************************)
\* api_routes: /nl-query and /upload/{subject} go through handlers that run
\* the work in tokio::task::spawn_blocking; every other route is served by
\* the async handler itself
HandlerContext(handler) ==
    IF handler \in {"nl_query", "upload"} THEN "blocking" ELSE "async"

Response(handler, subject, status, touched_db) ==
    [handler |-> handler, subject |-> subject, status |-> status,
     db_ctx |-> IF touched_db THEN HandlerContext(handler) ELSE "none"]

\* execute_query: a pooled connection, qualification, prepare, query_arrow
ExecuteQuery ==
    /\ \E status \in {"pool_error", "sql_error", "ok"} :
         http' = Response("execute_query", << >>, status, TRUE)
    /\ UNCHANGED nlVars
    /\ UNCHANGED rfVars
    /\ UNCHANGED << px, up >>

\* create_subject: the directory is created, then the schema in the main
\* database, then the subject list is reloaded
CreateSubject(s) ==
    /\ UNCHANGED << backend, csvFiles, llm_manager, nl >>
    /\ UNCHANGED rfVars
    /\ UNCHANGED << px, up >>
    /\ IF s \in dirs
       THEN /\ http' = Response("create_subject", s, "conflict", FALSE)
            /\ UNCHANGED << dirs, subjects >>
       ELSE \E outcome \in {"mkdir_error", "pool_error", "schema_error", "created"} :
              /\ http' = Response("create_subject", s, outcome,
                                  outcome # "mkdir_error")
              /\ dirs' = IF outcome = "mkdir_error" THEN dirs ELSE dirs \cup {s}
              /\ IF outcome = "created"
                 THEN subjects' \in Orderings(dirs') \cup {subjects}
                 ELSE UNCHANGED subjects

\* what is uploaded: files whose stems give the table names
UploadedFiles == { << Orders >>, << Orders, Orders >> }

\* the refresh_cache call process_uploaded_files makes
UploadCall == 1

\* process_uploaded_files lines 189-197: the subject directory must exist
UploadStart(s, files) ==
    /\ up.pc = "idle"
    /\ UNCHANGED nlVars
    /\ UNCHANGED rfVars
    /\ UNCHANGED px
    /\ IF s \notin dirs
       THEN /\ up' = [up EXCEPT !.pc = "responded", !.subject = s]
            /\ http' = Response("upload", s, "not_found", FALSE)
       ELSE /\ up' = [pc |-> "ingest", subject |-> s, files |-> files,
                      uploaded |-> << >>]
            /\ UNCHANGED http

\* lines 199-226: the next file is copied into the subject directory and
\* ingested; a file that cannot be copied or ingested is passed over
UploadIngestFile ==
    /\ up.pc = "ingest"
    /\ up.files # << >>
    /\ UNCHANGED << backend, subjects, llm_manager, nl >>
    /\ UNCHANGED << schema_cache, last_refresh, cache_writer, cache_readers,
                    ts_writer, rf >>
    /\ UNCHANGED << px, http >>
    /\ LET s == up.subject
           t == Head(up.files)
       IN \E copy_ok \in {c \in BOOLEAN : c => s \in dirs} :
            IF ~copy_ok
            THEN /\ up' = [up EXCEPT !.files = Tail(up.files)]
                 /\ UNCHANGED << dirs, csvFiles, dbFile, dbTables >>
            ELSE \E outcome \in IngestOutcomes :
                   /\ csvFiles' = [csvFiles EXCEPT ![s] = csvFiles[s] \cup {t}]
                   /\ IngestFile(s, t, outcome)
                   /\ up' = [up EXCEPT !.files = Tail(up.files),
                                       !.uploaded =
                                           IF outcome = "ok"
                                           THEN Append(up.uploaded, t)
                                           ELSE up.uploaded]

\* lines 228-263: after the pause, the diagnostic takes a pooled connection;
\* without one the handler answers with an error
UploadDiagnostic ==
    /\ up.pc = "ingest"
    /\ up.files = << >>
    /\ UNCHANGED nlVars
    /\ UNCHANGED rfVars
    /\ UNCHANGED px
    /\ \E pool_ok \in BOOLEAN :
         IF pool_ok
         THEN /\ up' = [up EXCEPT !.pc = "refresh"]
              /\ UNCHANGED http
         ELSE /\ up' = [up EXCEPT !.pc = "responded"]
              /\ http' = Response("upload", up.subject, "db_error", TRUE)

\* line 266: state.schema_manager.refresh_cache() is called
UploadRefreshBegin ==
    /\ up.pc = "refresh"
    /\ rf[UploadCall].result = "none"
    /\ RefreshBegin(UploadCall)

\* lines 266-271: refresh_cache has returned, its error is only logged, and
\* the names of the ingested tables are the response
UploadRespond ==
    /\ up.pc = "refresh"
    /\ rf[UploadCall].pc = "idle"
    /\ rf[UploadCall].result # "none"
    /\ up' = [up EXCEPT !.pc = "responded"]
    /\ http' = Response("upload", up.subject, "ok", TRUE)
    /\ UNCHANGED nlVars
    /\ UNCHANGED rfVars
    /\ UNCHANGED px

\* callers of refresh_cache other than the upload
OtherCalls == Refreshers \ {UploadCall}

\* the data directory holds any subjects, with or without a database file
HandlersStart ==
    /\ backend = "ollama"
    /\ dirs \in SUBSET Subjects
    /\ csvFiles = [s \in Subjects |-> {}]
    /\ subjects = << >>
    /\ llm_manager = 0
    /\ nl = [r \in Requests |-> NlIdle]
    /\ dbFile \in [Subjects -> BOOLEAN]
    /\ dbTables = [s \in Subjects |-> {}]
    /\ \A s \in Subjects : s \notin dirs => ~dbFile[s]
    /\ schema_cache = EmptyMap
    /\ last_refresh = 0
    /\ cache_writer = 0
    /\ cache_readers = {}
    /\ ts_writer = 0
    /\ rf = [r \in Refreshers |-> RfIdle]
    /\ px = NoCall
    /\ http = NoResponse
    /\ up = UpIdle

\* the refresh_cache call that follows the subject handlers
CatalogCall == 1

InitSubjects == HandlersStart

NextSubjects ==
    \/ ExecuteQuery
    \/ \E s \in Subjects : CreateSubject(s)
    \/ \E s \in Subjects : DeleteSubject(s)
    \/ RefreshBegin(CatalogCall)
    \/ RefreshScanSubject(CatalogCall)
    \/ RefreshInstall(CatalogCall)
    \/ RefreshStamp(CatalogCall)
    \/ RefreshReturn(CatalogCall)

SpecSubjects == InitSubjects /\ [][NextSubjects]_vars

InitUpload == HandlersStart

NextUpload ==
    \/ \E s \in Subjects, files \in UploadedFiles : UploadStart(s, files)
    \/ UploadIngestFile
    \/ UploadDiagnostic
    \/ UploadRefreshBegin
    \/ UploadRespond
    \/ \E r \in OtherCalls : RefreshBegin(r)
    \/ \E r \in Refreshers : RefreshScanSubject(r)
    \/ \E r \in Refreshers : RefreshInstall(r)
    \/ \E r \in Refreshers : RefreshStamp(r)
    \/ \E r \in Refreshers : RefreshReturn(r)

SpecUpload == InitUpload /\ [][NextUpload]_vars

\* C15: every operation on a database handle runs in a blocking execution
\* context: no handler that touched the database did so from async code.
C15_DatabaseWorkIsBlocking ==
    http.db_ctx # "async"

InCatalog(s) == schema_cache[s].present

\* C16: when create_subject succeeds the subject is active: its directory
\* and its database file exist (so that the next refresh lists it).
C16_CreatedSubjectIsActive ==
    [][ (http' # http /\ http'.handler = "create_subject"
            /\ http'.status = "created") =>
          /\ http'.subject \in dirs'
          /\ dbFile'[http'.subject] ]_vars

\* C17: when the upload answers with the tables it loaded, the refresh has
\* run after the last ingestion and every table of the answer is in the
\* schema cache.
C17_UploadedTablesAreCached ==
    [][ (up.pc # "responded" /\ up'.pc = "responded" /\ http'.status = "ok") =>
          \A i \in 1..Len(up'.uploaded) :
             /\ InCatalog(up'.subject)
             /\ \E k \in 1..Len(schema_cache'[up'.subject].tables) :
                  schema_cache'[up'.subject].tables[k] = up'.uploaded[i] ]_vars

(***************************************************************************)
(* Table discovery applied to a database under every behaviour of the      *)
(* engine (SpecDiscover).                                                  *)
(***************************************************************************)
\* the strategies, in the order the closure lists them
StrategyOrder ==
    << "sqlite_master", "show_tables", "pragma_table_list", "conventional_names" >>

\* refresh_cache lines 86-159: the strategies the closure attempts (prepares),
\* in the order it attempts them
attempted_strategies(db_tables, o1, o2, o3) ==
    LET second == IF o1 = "prepare_error" THEN << "show_tables" >> ELSE << >>
        upto2 == << "sqlite_master" >> \o second
        first == IF o1 = "prepare_error"
                 THEN RowsOf(o2, db_tables)
                 ELSE KeepUser(RowsOf(o1, db_tables))
    IN IF o1 = "query_error" \/ (o1 = "prepare_error" /\ o2 = "query_error")
       THEN upto2
       ELSE IF first # << >> THEN upto2
            ELSE IF o3 = "query_error" \/ KeepUser(RowsOf(o3, db_tables)) # << >>
                 THEN upto2 \o << "pragma_table_list" >>
                 ELSE upto2 \o << "pragma_table_list", "conventional_names" >>

InitDiscover ==
    /\ NothingRunning
    /\ \E db_tables \in SUBSET TableNames, o1 \in StrategyOutcomes,
          o2 \in StrategyOutcomes, o3 \in StrategyOutcomes :
         px = [op |-> "discover", db_tables |-> db_tables,
               outcomes |-> << o1, o2, o3 >>]

\* the blocking task of refresh_cache runs discovery on the open database
Discover ==
    /\ px.op = "discover"
    /\ px' = [op |-> "discovered", db_tables |-> px.db_tables,
              outcomes |-> px.outcomes,
              found |-> discover_tables(px.db_tables, px.outcomes[1],
                                        px.outcomes[2], px.outcomes[3]),
              attempted |-> attempted_strategies(px.db_tables, px.outcomes[1],
                                                 px.outcomes[2], px.outcomes[3])]
    /\ UNCHANGED nlVars
    /\ UNCHANGED rfVars
    /\ UNCHANGED << http, up >>

NextDiscover == Discover

SpecDiscover == InitDiscover /\ [][NextDiscover]_vars

\* what strategy k (1..3) yields when it is run: the user tables when its
\* query returns rows, nothing when it returns no row or fails
YieldOf(k) == KeepUser(RowsOf(px.outcomes[k], px.db_tables))

StrategyIndex(name) == CHOOSE k \in 1..4 : StrategyOrder[k] = name

\* the strategies of seq appear in the order of StrategyOrder
InFixedOrder(seq) ==
    \A i \in 1..Len(seq) : \A j \in (i + 1)..Len(seq) :
        StrategyIndex(seq[i]) < StrategyIndex(seq[j])

\* C18: the strategies are tried in the fixed order, and strategy k is
\* attempted exactly when every earlier strategy yielded no table name,
\* having returned no row or failed.
C18_StrategiesInOrder ==
    px.op = "discovered" =>
        /\ InFixedOrder(px.attempted)
        /\ \A k \in 2..4 :
             (\E i \in 1..Len(px.attempted) : px.attempted[i] = StrategyOrder[k])
                 <=> (\A j \in 1..(k - 1) : YieldOf(j) = << >>)

(***************************************************************************)
(* Locking of refresh_cache, checked under SpecRefresh.                    *)
(***************************************************************************)
\* C19: the table map and the timestamp are replaced together, under one
\* acquisition of a write lock: the step that installs the new map (and
\* takes the write lock of the cache) also stores the new timestamp, so no
\* state holds the new map with the old timestamp.
C19_MapAndTimestampTogether ==
    [][ (cache_writer' # cache_writer /\ cache_writer' # 0) =>
            last_refresh' # last_refresh ]_vars

\* C20: a call that is scanning the subjects and running discovery does not
\* hold the write lock of the cache: the lock is taken only once every
\* entry has been scanned.
C20_NoWriteLockDuringDiscovery ==
    /\ \A r \in Refreshers : rf[r].pc \in {"idle", "scan"} => cache_writer # r
    /\ \A r \in Refreshers : cache_writer = r => rf[r].entries = {}

\* a reader holds the read lock while a call is in the middle of discovery
C20_Witness ==
    \E r \in Refreshers, p \in Readers :
        /\ rf[r].pc = "scan"
        /\ rf[r].entries # {}
        /\ rf[r].schema_map # EmptyMap
        /\ p \in cache_readers

(***************************************************************************)
(* The LLM lock and execution (SpecNl).                                    *)
(***************************************************************************)
\* C21: the LLM lock is held only while generate_sql runs: its holder is in
\* generate_sql, so a request that is executing its statement, or that has
\* ended, with a failed generation or otherwise, does not hold it.
C21_LockHeldOnlyWhileGenerating ==
    /\ llm_manager # 0 => nl[llm_manager].pc = "ModelInvoked"
    /\ \A r \in Requests :
         nl[r].pc \in {"SqlExtracted", "Succeeded", "Failed"} => llm_manager # r

\* one request is about to execute its statement and another one has failed
\* in generation; the lock is free
C21_Witness ==
    \E r \in Requests, q \in Requests :
        /\ nl[r].pc = "SqlExtracted"
        /\ nl[q].error = "llm_error"
        /\ llm_manager = 0

(***************************************************************************)
(* What extraction returns (SpecExtract).                                  *)
(***************************************************************************)
\* the text after the SQL-tagged opening fence of the response
AfterSqlFence(content) ==
    Slice(content, Find(content, FenceSql) + 6, Len(content))

\* the response holds a SQL-tagged fenced block: an SQL-tagged opening fence
\* and a fence after it
HasSqlBlock(content) ==
    /\ Find(content, FenceSql) # None
    /\ Find(AfterSqlFence(content), Fence) # None

\* the interior of that block, up to the next fence after the opening one
SqlBlockInterior(content) ==
    Slice(AfterSqlFence(content), 0, Find(AfterSqlFence(content), Fence))

\* C22: when the response holds a SQL-tagged fenced block, extraction
\* returns the trimmed text between the SQL-tagged opening fence and the
\* next fence after it, and nothing that follows that closing fence.
C22_ReturnsFirstSqlBlock ==
    (px.op = "extracted" /\ HasSqlBlock(px.content)) =>
        /\ px.out.ok
        /\ px.out.sql = Trim(SqlBlockInterior(px.content))

\* the first line of lines that begins with a SQL statement keyword, 0 if none
KeywordLine(lines) ==
    IF \E i \in 1..Len(lines) : IsSqlLine(lines[i])
    THEN CHOOSE i \in 1..Len(lines) :
            IsSqlLine(lines[i]) /\ \A m \in 1..(i - 1) : ~IsSqlLine(lines[m])
    ELSE 0

\* the first line at or after line i that ends with ';', 0 if none
TerminatingLine(lines, i) ==
    IF \E e \in i..Len(lines) : EndsWith(Trim(lines[e]), Semi)
    THEN CHOOSE e \in i..Len(lines) :
            /\ EndsWith(Trim(lines[e]), Semi)
            /\ \A m \in i..(e - 1) : ~EndsWith(Trim(lines[m]), Semi)
    ELSE 0

\* C23: in line-scan extraction (a response without fences) the result
\* starts at the first line that begins with a SQL keyword and holds no text
\* of a line that comes after the first line, at or after the keyword line,
\* that ends with ';'.
C23_LineScanStopsAtSemicolon ==
    (px.op = "extracted" /\ px.provider = "ollama"
        /\ ~Contains(px.content, Fence)
        /\ KeywordLine(Lines(px.content)) # 0) =>
        LET lines == Lines(px.content)
            i == KeywordLine(lines)
            e == TerminatingLine(lines, i)
        IN /\ px.out.ok
           /\ StartsWith(px.out.sql, Trim(lines[i]))
           /\ e # 0 =>
                \A m \in (e + 1)..Len(lines) :
                    Trim(lines[m]) # << >> =>
                        ~Contains(px.out.sql, Trim(lines[m]))

(***************************************************************************)
(* Which references the qualifier rewrites (SpecQualify).                  *)
(***************************************************************************)
\* the keywords a table reference directly follows
ClauseKeywords == { KwFrom, KwJoin, KwUpdate, KwInsertInto, KwDeleteFrom }

\* position i of s is not a character of an identifier (or is outside s)
BoundaryAt(s, i) == i < 0 \/ i >= Len(s) \/ s[i + 1] \notin WordChars

\* s holds the unqualified table name directly after the keyword kw, as a
\* whole identifier
UnqualifiedReference(s, kw, table) ==
    LET pat == kw \o Sp \o table
    IN \E i \in 0..(Len(s) - Len(pat)) :
          /\ MatchAt(s, pat, i)
          /\ BoundaryAt(s, i - 1)
          /\ BoundaryAt(s, i + Len(pat))

\* C24: every unqualified reference to a known table that directly follows
\* FROM, JOIN, UPDATE, INSERT INTO or DELETE FROM is rewritten to
\* "subject"."table" whatever follows the name (a space, ';', a newline, the
\* end of the statement): no such reference is left in the output.
C24_EveryReferenceQualified ==
    px.op = "qualified" =>
        \A k \in 1..Len(px.tables), kw \in ClauseKeywords :
            ~UnqualifiedReference(px.out, kw, px.tables[k])

\* C25: the qualifier rewrites whole identifiers only: when every known
\* table name occurs in the statement only inside a longer identifier, the
\* statement is returned as it was.
C25_WholeIdentifiersOnly ==
    (px.op = "qualified"
        /\ \A k \in 1..Len(px.tables) : px.tables[k] \notin Tokens(px.sql)) =>
        px.out = px.sql

(***************************************************************************)
(* Concurrent refreshes and the order of their scans (SpecRace).  The      *)
(* calls run as in SpecRefresh; px records, for the property only, which   *)
(* calls had finished scanning when another call began (after) and which   *)
(* calls have since seen such a later call install its map (overtaken).    *)
(***************************************************************************)
NoRace == [op |-> "race", after |-> [r \in Refreshers |-> {}],
           overtaken |-> [r \in Refreshers |-> FALSE]]

\* the calls other than r that have scanned every entry and not yet
\* installed their map
ScannedBefore(r) ==
    { q \in Refreshers \ {r} : rf[q].pc = "scan" /\ rf[q].entries = {} }

InitRace ==
    /\ RefreshStart
    /\ px = NoRace

RaceBegin(r) ==
    /\ RefreshBeginStep(r)
    /\ px' = IF rf'[r].pc = "scan"
             THEN [px EXCEPT !.after[r] = ScannedBefore(r)]
             ELSE px

RaceInstall(r) ==
    /\ RefreshInstallStep(r)
    /\ px' = [px EXCEPT
                !.after = [q \in Refreshers |->
                             IF q = r THEN {} ELSE px.after[q] \ {r}],
                !.overtaken = [q \in Refreshers |->
                                 IF q = r THEN FALSE
                                 ELSE px.overtaken[q] \/ q \in px.after[r]]]

NextRace ==
    \/ \E r \in Refreshers : RaceBegin(r)
    \/ \E r \in Refreshers : RefreshScanSubject(r)
    \/ \E r \in Refreshers : RaceInstall(r)
    \/ \E r \in Refreshers : RefreshStamp(r)
    \/ \E r \in Refreshers : RefreshReturn(r)
    \/ \E s \in Subjects, t \in TableNames : Ingest(s, t)

SpecRace == InitRace /\ [][NextRace]_vars

\* call r installs its map in this step
Installs(r) == rf[r].pc = "scan" /\ rf'[r].pc = "stamp"

\* C26: with concurrent refresh_cache calls the cache never regresses: a
\* call whose scan was complete before another call began does not overwrite
\* the map that later call has installed with a different one.
C26_CacheNeverRegresses ==
    [][\A r \in Refreshers :
          (Installs(r) /\ px.overtaken[r]) => schema_cache' = schema_cache]_vars

(***************************************************************************)
(* Progress of concurrent refreshes (SpecRefreshFair).  The calls run over  *)
(* a data directory that does not change; refresh_cache is the only code   *)
(* that takes the two locks.  tokio's RwLock queues its waiters in order   *)
(* of arrival, so a call that waits for the write lock gets it when it is  *)
(* free again and again (strong fairness); a call that holds a lock goes   *)
(* on running (weak fairness).                                             *)
(***************************************************************************)
NextLocks ==
    \/ \E r \in Refreshers : RefreshBegin(r)
    \/ \E r \in Refreshers : RefreshScanSubject(r)
    \/ \E r \in Refreshers : RefreshInstall(r)
    \/ \E r \in Refreshers : RefreshStamp(r)
    \/ \E r \in Refreshers : RefreshReturn(r)

FairScheduling ==
    /\ \A r \in Refreshers : SF_vars(RefreshInstall(r))
    /\ \A r \in Refreshers : WF_vars(RefreshStamp(r))
    /\ \A r \in Refreshers : WF_vars(RefreshReturn(r))

SpecRefreshFair == InitRefresh /\ [][NextLocks]_vars /\ FairScheduling

\* C27: concurrent refresh_cache calls cannot deadlock: the write lock of
\* last_refresh is only held by the call that holds the write lock of
\* schema_cache (the locks are taken in that order), and under fair
\* scheduling every call that has finished discovery completes: it returns
\* Ok with both locks released.
C27_ScannedRefreshCompletes ==
    /\ [](ts_writer # 0 => cache_writer = ts_writer)
    /\ \A r \in Refreshers :
         ScanComplete(r) ~>
            (rf[r].result = "ok" /\ cache_writer # r /\ ts_writer # r)

\* a call has finished discovery and waits for the write lock of the cache,
\* which another call holds
C27_Witness ==
    \E r \in Refreshers, q \in Refreshers :
        /\ ScanComplete(r)
        /\ rf[q].pc \in {"stamp", "return"}
        /\ cache_writer = q

(***************************************************************************)
(* SchemaManager::execute_query (SpecRows): a statement is run on the      *)
(* database of a subject and its rows are returned as maps from column     *)
(* name to text.                                                           *)
(***************************************************************************)
MaxRows == 2

\* the statements sent, with the columns the engine reports for each, whether
\* a column holds integers, and whether the statement is an aggregate over the
\* whole table (one row whatever the table holds)
Statements ==
    LET
        SqlAllOrders ==
            << "S","E","L","E","C","T"," ","*"," ","F","R","O","M"," ","o","r","d",
               "e","r","s" >>
        SqlCountOrders ==
            << "S","E","L","E","C","T"," ","C","O","U","N","T","(","*",")"," ","F",
               "R","O","M"," ","o","r","d","e","r","s" >>
        SqlCountFirst ==
            << "S","E","L","E","C","T"," ","C","O","U","N","T","(","*",")"," ","A",
               "S"," ","n",","," ","c","o","u","n","t","r","y"," ","F","R","O","M",
               " ","o","r","d","e","r","s"," ","G","R","O","U","P"," ","B","Y"," ",
               "c","o","u","n","t","r","y" >>
        SqlCountLast ==
            << "S","E","L","E","C","T"," ","c","o","u","n","t","r","y",","," ","C",
               "O","U","N","T","(","*",")"," ","A","S"," ","n"," ","F","R","O","M",
               " ","o","r","d","e","r","s"," ","G","R","O","U","P"," ","B","Y"," ",
               "c","o","u","n","t","r","y" >>
        SqlTwoIds ==
            << "S","E","L","E","C","T"," ","o",".","i","d",","," ","c",".","i","d",
               " ","F","R","O","M"," ","o","r","d","e","r","s"," ","o"," ","J","O",
               "I","N"," ","c","u","s","t","o","m","e","r","s"," ","c"," ","O","N",
               " ","o",".","i","d"," ","="," ","c",".","i","d" >>
        SqlDiscounts ==
            << "S","E","L","E","C","T"," ","i","d"," ","F","R","O","M"," ","d","i",
               "s","c","o","u","n","t","s" >>
        ColId == << "i","d" >>
        ColN == << "n" >>
        ColCountry == << "c","o","u","n","t","r","y" >>
        ColCountStar == << "c","o","u","n","t","_","s","t","a","r","(",")" >>
    IN
    { [sql |-> SqlAllOrders, columns |-> << ColId, ColCountry >>,
           ints |-> << TRUE, FALSE >>, single |-> FALSE],
          [sql |-> SqlCountOrders, columns |-> << ColCountStar >>,
           ints |-> << TRUE >>, single |-> TRUE],
          [sql |-> SqlCountFirst, columns |-> << ColN, ColCountry >>,
           ints |-> << TRUE, FALSE >>, single |-> FALSE],
          [sql |-> SqlCountLast, columns |-> << ColCountry, ColN >>,
           ints |-> << FALSE, TRUE >>, single |-> FALSE],
          [sql |-> SqlTwoIds, columns |-> << ColId, ColId >>,
           ints |-> << TRUE, TRUE >>, single |-> FALSE],
          [sql |-> SqlDiscounts, columns |-> << ColId >>,
           ints |-> << TRUE >>, single |-> FALSE] }

\* the values of a result: ValueRef::BigInt and ValueRef::Text, with the text
\* to_string gives
Cells ==
    { [int |-> TRUE, text |-> << "1" >>], [int |-> TRUE, text |-> << "2" >>],
      [int |-> FALSE, text |-> << "u","k" >>] }

\* the rows the engine can produce for a statement
RowsOfStatement(st) ==
    LET row == { r \in [1..Len(st.columns) -> Cells] :
                    \A i \in 1..Len(st.columns) : r[i].int = st.ints[i] }
        counts == IF st.single THEN {1} ELSE 0..MaxRows
    IN UNION { [1..n -> row] : n \in counts }

QueryOutcomes == {"ok", "open_error", "prepare_error"}

QueryErr == [ok |-> FALSE, rows |-> << >>]
QueryOk(maps) == [ok |-> TRUE, rows |-> maps]

\* lines 287-324: row_map.insert(name.clone(), value) for each column in
\* turn; a later insert under the same name replaces the earlier one
RowMap(column_names, row) ==
    [ name \in { column_names[i] : i \in 1..Len(column_names) } |->
        LET last == CHOOSE i \in 1..Len(column_names) :
                       /\ column_names[i] = name
                       /\ \A j \in (i + 1)..Len(column_names) :
                            column_names[j] # name
        IN row[last].text ]

\* lines 207-208: the statement text holds COUNT and query_row reads column 0
\* of the first row as an i64
DirectCount(sql, rows) ==
    /\ Contains(ToUppercase(sql), << "C","O","U","N","T" >>)
    /\ Len(rows) > 0
    /\ rows[1][1].int

\* lines 215-221: the name the count is returned under
CountColumnName(sql) ==
    LET
        NameCount == << "c","o","u","n","t" >>
        NameNumberOfOrders ==
            << "n","u","m","b","e","r","_","o","f","_","o","r","d","e","r","s" >>
        NameTotalOrders == << "t","o","t","a","l","_","o","r","d","e","r","s" >>
    IN
    IF Contains(sql, NameNumberOfOrders) THEN NameNumberOfOrders
    ELSE IF Contains(sql, NameTotalOrders) THEN NameTotalOrders
    ELSE NameCount

\* lines 197-327: the blocking task of SchemaManager::execute_query, for a
\* statement whose result has the given columns and rows; a statement the
\* engine cannot open the database for, or cannot prepare, is an error
execute_query(outcome, sql, columns, rows) ==
    IF outcome # "ok" THEN QueryErr
    ELSE IF DirectCount(sql, rows)
    THEN QueryOk(<< [ name \in {CountColumnName(sql)} |-> rows[1][1].text ] >>)
    ELSE QueryOk([ i \in 1..Len(rows) |-> RowMap(columns, rows[i]) ])

InitRows ==
    /\ NothingRunning
    /\ \E st \in Statements :
         \E rows \in RowsOfStatement(st) :
            px = [op |-> "query", sql |-> st.sql, columns |-> st.columns,
                  rows |-> rows]

RunQuery ==
    /\ px.op = "query"
    /\ \E outcome \in QueryOutcomes :
         px' = [op |-> "answered", sql |-> px.sql, columns |-> px.columns,
                rows |-> px.rows,
                out |-> execute_query(outcome, px.sql, px.columns, px.rows)]
    /\ UNCHANGED nlVars
    /\ UNCHANGED rfVars
    /\ UNCHANGED << http, up >>

NextRows == RunQuery

SpecRows == InitRows /\ [][NextRows]_vars

\* C28: for every statement that executes successfully, execute_query
\* returns exactly one map per row the statement produces, and each map
\* holds one entry per result column.
C28_OneMapPerRow ==
    (px.op = "answered" /\ px.out.ok) =>
        /\ Len(px.out.rows) = Len(px.rows)
        /\ \A i \in 1..Len(px.out.rows) :
              Cardinality(DOMAIN px.out.rows[i]) = Len(px.columns)

(***************************************************************************)
(* delete_subject and what it answers (SpecDelete): subjects are created   *)
(* and deleted, and each call leaves its answer in http.                   *)
(***************************************************************************)
\* lines 755-794: delete_subject with its answer: 404 when the directory does
\* not exist, 500 when a step fails, 204 otherwise
DeleteSubjectAnswers(s) ==
    IF s \notin dirs
    THEN /\ http' = Response("delete_subject", s, "not_found", FALSE)
         /\ UNCHANGED nlVars
         /\ UNCHANGED rfVars
         /\ UNCHANGED << px, up >>
    ELSE \E outcome \in {"remove_error", "pool_error", "drop_error", "ok"} :
            /\ DeleteSubjectStep(s, outcome)
            /\ http' = Response("delete_subject", s, outcome,
                                outcome \in {"drop_error", "ok"})

NextDelete ==
    \/ \E s \in Subjects : CreateSubject(s)
    \/ \E s \in Subjects : DeleteSubjectAnswers(s)

SpecDelete == HandlersStart /\ [][NextDelete]_vars

\* C29: when delete_subject returns an error nothing was deleted: the
\* directories of the data directory and the cached subject list are what
\* they were before the call.
C29_FailedDeleteDeletesNothing ==
    [][(http'.handler = "delete_subject" /\ http'.status # "ok") =>
          /\ dirs' = dirs
          /\ subjects' = subjects]_vars

(***************************************************************************)
(* A failed ingest and the table it was to replace (SpecUpload).           *)
(***************************************************************************)
\* the upload passes over its next file in this step: the file was not
\* copied or its ingest returned an error
FilePassedOver ==
    /\ up.pc = "ingest"
    /\ up.files # << >>
    /\ up'.files = Tail(up.files)
    /\ up'.uploaded = up.uploaded

\* C30: when ingesting a file as table T fails, a table T that existed in
\* the database of the subject before the ingest still exists.
C30_FailedIngestKeepsTable ==
    [][FilePassedOver =>
          (Head(up.files) \in dbTables[up.subject] =>
              Head(up.files) \in dbTables'[up.subject])]_vars

====
